---- MODULE Spec2Model ----
(***************************************************************************)
(* A model of "The Brain" habit coach (src/app.py): the sqlite tables      *)
(* users and logs, the sidebar "Save Profile" handler, the "Analyze &      *)
(* Save Today" handler and the functions they call.                        *)
(*                                                                         *)
(* Hours are counted in half hours, the step of the hours slider           *)
(* (src/app.py:335), so every REAL the program stores is an integer here.  *)
(* Texts are sequences of one-character strings.  Calendar dates are day   *)
(* numbers; today - timedelta(days=i) is today - i.                        *)
(***************************************************************************)
EXTENDS Integers, Sequences, FiniteSets, TLC

----------------------------------------------------------------------------
(* Bounds of the model *)

\* user ids are 1..NumUsers
NumUsers == 2
\* how many times the calendar date changes in one behaviour
MaxTicks == 1
\* the hours slider is tried at 0h, 2h, ... up to 2h * MaxHourSteps
MaxHourSteps == 1
\* stage evaluation is tried on streaks 0..MaxProbeStreak
MaxProbeStreak == 61
\* a stored history is tried with runs of up to this many logged days
MaxHistoryRun == 367
\* the estimate is tried on totals of up to 2500h times this
MaxProbeTotalSteps == 4
\* a text is tried with up to this many spaces on either side
MaxPad == 1

----------------------------------------------------------------------------
(* Program constants *)

HalfHoursPerHour == 2
H(hours) == hours * HalfHoursPerHour

\* src/app.py:170, for i in range(0, 365)
STREAK_WINDOW == 365

\* src/app.py:30
DISTRACTION_THRESHOLDS == [silver |-> 15, platinum |-> 30, gold |-> 60]
\* src/app.py:32-36, (hours/day required, streak_days)
MASTERY_THRESHOLDS ==
  [silver |-> <<H(2), 15>>, platinum |-> <<H(4), 30>>, gold |-> <<H(6), 60>>]

\* src/app.py:335, st.slider("Hours you worked today", 0.0, 12.0, 0.0, 0.5)
SliderMaxHours == 12

DISTRACTION_KEYWORDS ==
  << <<"s", "o", "c", "i", "a", "l", " ", "m", "e", "d", "i", "a">>,
     <<"f", "a", "c", "e", "b", "o", "o", "k">>,
     <<"i", "n", "s", "t", "a", "g", "r", "a", "m">>,
     <<"t", "i", "k", "t", "o", "k">>,
     <<"y", "o", "u", "t", "u", "b", "e">>,
     <<"g", "a", "m", "i", "n", "g">>,
     <<"n", "e", "t", "f", "l", "i", "x">>,
     <<"t", "v">>,
     <<"s", "c", "r", "o", "l", "l", "i", "n", "g">>,
     <<"p", "r", "o", "c", "r", "a", "s", "t", "i", "n", "a", "t", "e">>,
     <<"p", "r", "o", "c", "r", "a", "s", "t", "i", "n", "a", "t", "i", "o", "n">>,
     <<"t", "w", "i", "t", "t", "e", "r">>,
     <<"s", "n", "a", "p", "c", "h", "a", "t">>,
     <<"r", "e", "d", "d", "i", "t">> >>

negatives ==
  << <<"a", "d", "d", "i", "c", "t", "e", "d">>,
     <<"c", "a", "n", "'", "t", " ", "s", "t", "o", "p">>,
     <<"c", "a", "n", "t", " ", "s", "t", "o", "p">>,
     <<"c", "a", "n", "n", "o", "t", " ", "s", "t", "o", "p">>,
     <<"w", "a", "s", "t", "i", "n", "g">>,
     <<"w", "a", "s", "t", "e", " ", "t", "i", "m", "e">>,
     <<"c", "a", "n", "'", "t", " ", "f", "o", "c", "u", "s">>,
     <<"c", "a", "n", "t", " ", "f", "o", "c", "u", "s">> >>

NeutralTokens ==
  { <<"n", "o", "n", "e">>,
    <<"n", "o">>,
    <<"n", "/", "a">>,
    <<"n", "a">>,
    <<"n", "o", "t", "h", "i", "n", "g">> }

\* The badge identifiers the program writes, in the order sorted() gives
\* their names: "Gold (Distraction-Free)" < "Gold (Mastery)" < "Gold Stage"
\* < "Platinum (..." < ... < "Silver Stage".
BadgeOrder ==
  << "Gold (Distraction-Free)", "Gold (Mastery)", "Gold Stage",
     "Platinum (Distraction-Free)", "Platinum (Mastery)", "Platinum Stage",
     "Silver (Distraction-Free)", "Silver (Mastery)", "Silver Stage" >>

Range(s) == {s[i] : i \in DOMAIN s}
Badges == Range(BadgeOrder)

----------------------------------------------------------------------------
(* Text: str.lower, str.strip, the "in" substring test *)

UpperCase == <<"A", "B", "C", "D", "E", "F", "G", "H", "I", "J", "K", "L", "M",
               "N", "O", "P", "Q", "R", "S", "T", "U", "V", "W", "X", "Y", "Z">>
LowerCase == <<"a", "b", "c", "d", "e", "f", "g", "h", "i", "j", "k", "l", "m",
               "n", "o", "p", "q", "r", "s", "t", "u", "v", "w", "x", "y", "z">>

LowerChar(c) ==
  IF \E i \in DOMAIN UpperCase : UpperCase[i] = c
  THEN LowerCase[CHOOSE i \in DOMAIN UpperCase : UpperCase[i] = c]
  ELSE c

Lower(t) == [i \in DOMAIN t |-> LowerChar(t[i])]

IsSpace(c) == c = " "

Strip(t) ==
  LET ink == {i \in DOMAIN t : ~IsSpace(t[i])}
  IN IF ink = {} THEN <<>>
     ELSE LET lo == CHOOSE i \in ink : \A j \in ink : i <= j
              hi == CHOOSE i \in ink : \A j \in ink : i >= j
          IN SubSeq(t, lo, hi)

\* kw in t
Contains(t, kw) ==
  \E i \in 1..(Len(t) - Len(kw) + 1) : SubSeq(t, i, i + Len(kw) - 1) = kw

\* detect_distractions without .lower()
detect_distractions_CaseSensitive(text) ==
  IF text = <<>> THEN FALSE
  ELSE LET t == Strip(text)
       IN IF t \in NeutralTokens THEN FALSE
          ELSE IF \E k \in DOMAIN DISTRACTION_KEYWORDS :
                     Contains(t, DISTRACTION_KEYWORDS[k]) THEN TRUE
          ELSE IF \E n \in DOMAIN negatives : Contains(t, negatives[n]) THEN TRUE
          ELSE FALSE

\* src/app.py:148-163
detect_distractions(text) ==
  IF text = <<>> THEN FALSE
  ELSE LET t == Lower(Strip(text))
       IN IF t \in NeutralTokens THEN FALSE
          ELSE IF \E k \in DOMAIN DISTRACTION_KEYWORDS :
                     Contains(t, DISTRACTION_KEYWORDS[k]) THEN TRUE
          ELSE IF \E n \in DOMAIN negatives : Contains(t, negatives[n]) THEN TRUE
          ELSE FALSE

----------------------------------------------------------------------------
(* The database: two tables, each a set of rows *)

VARIABLES
  users,    \* table users, PRIMARY KEY(user_id)
  logs,     \* table logs, PRIMARY KEY(user_id, log_date)
  today,    \* date.today()
  ticks,    \* how many times the date has changed
  last,     \* what the last handler run did and showed
  runs      \* per browser session, the "Analyze & Save Today" run that is
            \* under way statement by statement, next to another session's

vars == <<users, logs, today, ticks, last, runs>>

\* Two browser sessions: Streamlit runs the script of each in a thread of its
\* own, and each run opens a connection of its own (src/app.py:301).
Sessions == {"a", "b"}

\* a session with no run under way
NoRun ==
  [pc |-> "idle", user_id |-> 0, display_name |-> "", field |-> "",
   interests_text |-> "", hours_today |-> 0, distraction_free |-> FALSE,
   exercise |-> FALSE, diet |-> FALSE, early_morning |-> FALSE,
   user |-> {}, total |-> 0, streak |-> 0, awarded |-> {},
   badges_before |-> {}, overlapped |-> FALSE]

NoRuns == [s \in Sessions |-> NoRun]

UserIds == 1..NumUsers

\* src/app.py:53-65, the columns of users
UsersColumns ==
  {"user_id", "display_name", "field", "hour_stage", "total_hours",
   "streak_days", "badges", "last_check", "interests"}

\* src/app.py:68-79, the columns of logs
LogsColumns ==
  {"user_id", "log_date", "distraction_free", "hours", "exercise", "diet",
   "early_morning"}

\* the schema: the columns, and one row per PRIMARY KEY
TypeOK ==
  /\ \A r \in users : DOMAIN r = UsersColumns
  /\ \A r, q \in users : r.user_id = q.user_id => r = q
  /\ \A r \in logs : DOMAIN r = LogsColumns
  /\ \A r, q \in logs :
       (r.user_id = q.user_id /\ r.log_date = q.log_date) => r = q

\* int(bool(x))
BoolInt(b) == IF b THEN 1 ELSE 0

\* "... FROM users WHERE user_id=?"
UserRows(us, user_id) == {r \in us : r.user_id = user_id}

\* "... FROM logs WHERE user_id=? AND log_date=?"
LogRows(lg, user_id, d) == {r \in lg : r.user_id = user_id /\ r.log_date = d}

\* ",".join(sorted(set)) : the stored text, a list of names in sorted order
RECURSIVE JoinFrom(_, _)
JoinFrom(set, i) ==
  IF i > Len(BadgeOrder) THEN <<>>
  ELSE IF BadgeOrder[i] \in set THEN <<BadgeOrder[i]>> \o JoinFrom(set, i + 1)
  ELSE JoinFrom(set, i + 1)
JoinSorted(set) == JoinFrom(set, 1)

\* set(b for b in text.split(",") if b)
SplitBadges(text) == Range(text)

----------------------------------------------------------------------------
(* Business logic *)

\* src/app.py:172-174: the dates d for which the SELECT gives a row r with
\* r[0] == 1 (the PRIMARY KEY leaves one row at most per user and date)
StreakDates(lg, user_id) ==
  {r.log_date : r \in {x \in lg : x.user_id = user_id /\ x.distraction_free = 1}}

\* src/app.py:170-177, the iterations i = lo .. hi-1 of the loop: the i at
\* which it takes "break", hi when it runs to the end.  streak is i there,
\* one having been added per iteration passed.  (The range is walked in
\* halves, the earlier half first.)
RECURSIVE StreakLoop(_, _, _, _)
StreakLoop(dates, now, lo, hi) ==
  IF hi - lo = 0 THEN hi
  ELSE IF hi - lo = 1 THEN (IF (now - lo) \in dates THEN hi ELSE lo)
  ELSE LET mid == (lo + hi) \div 2
           first == StreakLoop(dates, now, lo, mid)
       IN IF first < mid THEN first ELSE StreakLoop(dates, now, mid, hi)

\* compute_streak with "if r:" for "if r and r[0] == 1:"
compute_streak_AnyRow(lg, user_id, now) ==
  StreakLoop({r.log_date : r \in {x \in lg : x.user_id = user_id}}, now, 0,
             STREAK_WINDOW)

\* compute_streak with the walk started at yesterday when today has no row
compute_streak_FromYesterday(lg, user_id, now) ==
  IF {r \in lg : r.user_id = user_id /\ r.log_date = now} = {}
  THEN StreakLoop(StreakDates(lg, user_id), now - 1, 0, STREAK_WINDOW)
  ELSE StreakLoop(StreakDates(lg, user_id), now, 0, STREAK_WINDOW)

\* src/app.py:165-178
compute_streak(lg, user_id, now) ==
  StreakLoop(StreakDates(lg, user_id), now, 0, STREAK_WINDOW)

\* src/app.py:191-197
DistractionBadges(streak_days) ==
  IF streak_days >= DISTRACTION_THRESHOLDS.gold THEN {"Gold (Distraction-Free)"}
  ELSE IF streak_days >= DISTRACTION_THRESHOLDS.platinum
       THEN {"Platinum (Distraction-Free)"}
  ELSE IF streak_days >= DISTRACTION_THRESHOLDS.silver
       THEN {"Silver (Distraction-Free)"}
  ELSE {}

\* src/app.py:199-205
MasteryBadges(total_hours) ==
  IF total_hours >= MASTERY_THRESHOLDS.gold[1] * MASTERY_THRESHOLDS.gold[2]
  THEN {"Gold (Mastery)"}
  ELSE IF total_hours >=
            MASTERY_THRESHOLDS.platinum[1] * MASTERY_THRESHOLDS.platinum[2]
       THEN {"Platinum (Mastery)"}
  ELSE IF total_hours >=
            MASTERY_THRESHOLDS.silver[1] * MASTERY_THRESHOLDS.silver[2]
       THEN {"Silver (Mastery)"}
  ELSE {}

\* src/app.py:180-210.  The result: the table after the UPDATE and the list
\* returned.
update_badges(us, user_id) ==
  LET rows == UserRows(us, user_id)
  IN IF rows = {} THEN [users |-> us, badges |-> <<>>]
     ELSE LET row == CHOOSE r \in rows : TRUE
              existing == SplitBadges(row.badges)
              new_badges == DistractionBadges(row.streak_days)
                              \cup MasteryBadges(row.total_hours)
              all_badges == JoinSorted(existing \cup new_badges)
          IN [users |-> (us \ rows) \cup {[row EXCEPT !.badges = all_badges]},
              badges |-> all_badges]

\* src/app.py:215-222: the set of rows fetchone() chooses from, {} for None
get_user(us, user_id) == UserRows(us, user_id)

\* create_or_update_user writing the row with INSERT OR REPLACE, as
\* update_user of src/database.py does
create_or_update_user_Replace(us, user_id, display_name, field, interests_text, now) ==
  (us \ UserRows(us, user_id)) \cup
    {[user_id |-> user_id, display_name |-> display_name, field |-> field,
      hour_stage |-> 1, total_hours |-> 0, streak_days |-> 0,
      badges |-> <<>>, last_check |-> now, interests |-> interests_text]}

\* src/app.py:224-233
create_or_update_user(us, user_id, display_name, field, interests_text, now) ==
  LET user == get_user(us, user_id)
  IN IF user # {}
     THEN (us \ user) \cup
            {[r EXCEPT !.display_name = display_name, !.field = field,
                       !.interests = interests_text] : r \in user}
     ELSE us \cup
            {[user_id |-> user_id, display_name |-> display_name,
              field |-> field, hour_stage |-> 1, total_hours |-> 0,
              streak_days |-> 0, badges |-> <<>>, last_check |-> now,
              interests |-> interests_text]}

\* the hours of the rows of a set that holds one row at most
SumHoursOf(rows) == IF rows = {} THEN 0 ELSE (CHOOSE r \in rows : TRUE).hours

\* the row INSERT OR REPLACE INTO logs is given (src/app.py:239-242)
LogRow(user_id, now, distraction_free, hours, exercise, diet, early_morning) ==
  [user_id |-> user_id, log_date |-> now,
   distraction_free |-> BoolInt(distraction_free), hours |-> hours,
   exercise |-> BoolInt(exercise), diet |-> BoolInt(diet),
   early_morning |-> BoolInt(early_morning)]

\* UpsertLog with PRIMARY KEY(log_date): the row replaces every row of the date
UpsertLog_KeyedByDate(lg, user_id, now, distraction_free, hours, exercise, diet, early_morning) ==
  {r \in lg : r.log_date # now} \cup
    {LogRow(user_id, now, distraction_free, hours, exercise, diet,
            early_morning)}

\* UpsertLog with PRIMARY KEY(user_id): the row replaces every row of the user
UpsertLog_KeyedByUser(lg, user_id, now, distraction_free, hours, exercise, diet, early_morning) ==
  {r \in lg : r.user_id # user_id} \cup
    {LogRow(user_id, now, distraction_free, hours, exercise, diet,
            early_morning)}

\* UpsertLog adding the hours to those of the row it replaces
UpsertLog_AddHours(lg, user_id, now, distraction_free, hours, exercise, diet, early_morning) ==
  (lg \ LogRows(lg, user_id, now)) \cup
    {LogRow(user_id, now, distraction_free,
            hours + SumHoursOf(LogRows(lg, user_id, now)), exercise, diet,
            early_morning)}

\* src/app.py:239-242, INSERT OR REPLACE INTO logs
UpsertLog(lg, user_id, now, distraction_free, hours, exercise, diet, early_morning) ==
  (lg \ LogRows(lg, user_id, now)) \cup
    {[user_id |-> user_id, log_date |-> now,
      distraction_free |-> BoolInt(distraction_free), hours |-> hours,
      exercise |-> BoolInt(exercise), diet |-> BoolInt(diet),
      early_morning |-> BoolInt(early_morning)]}

\* src/app.py:246, COALESCE(SUM(hours),0) over a set of rows: each value of
\* hours times the number of rows that hold it
RECURSIVE SumByValue(_, _)
SumByValue(rows, values) ==
  IF values = {} THEN 0
  ELSE LET h == CHOOSE v \in values : TRUE
       IN h * Cardinality({r \in rows : r.hours = h})
            + SumByValue(rows, values \ {h})

SumHours(rows) == SumByValue(rows, {r.hours : r \in rows})

TotalHours(lg, user_id) == SumHours({r \in lg : r.user_id = user_id})

\* src/app.py:255-258.  The WHERE clauses of the three subqueries of the
\* INSERT OR REPLACE INTO users statement, token by token: the third one is
\* written "WHERE user_id?".
UsersUpsertWheres ==
  << <<"user_id", "=", "?">>, <<"user_id", "=", "?">>, <<"user_id", "?">> >>

\* sqlite3 prepares a statement only if each WHERE clause is an expression;
\* a column name directly followed by a parameter is a syntax error
\* (sqlite3.OperationalError: near "?": syntax error).
SqlPrepares(wheres) ==
  \A i \in DOMAIN wheres : Len(wheres[i]) = 3 /\ wheres[i][2] = "="

\* src/app.py:255-259, the row INSERT OR REPLACE INTO users writes
UpsertUserTotals(us, user_id, display_name, field, total, streak, now) ==
  LET old == UserRows(us, user_id)
      prev == CHOOSE r \in old : TRUE
  IN (us \ old) \cup
       {[user_id |-> user_id, display_name |-> display_name, field |-> field,
         hour_stage |-> IF old # {} THEN prev.hour_stage ELSE 1,
         total_hours |-> total, streak_days |-> streak,
         badges |-> IF old # {} THEN prev.badges ELSE <<>>,
         last_check |-> now,
         interests |-> IF old # {} THEN prev.interests ELSE ""]}

\* src/app.py:235-263.  The result: both tables as committed, the locals
\* total and streak, whether the call raised, the list returned, the
\* statements and calls made, in the order they were made, and whether the
\* row written replaced a row equal to it.
log_daily_entry(us, lg, now, user_id, distraction_free, hours, exercise, diet, early_morning) ==
  LET lg1 == UpsertLog(lg, user_id, now, distraction_free, hours, exercise,
                       diet, early_morning)
      total == TotalHours(lg1, user_id)
      streak == compute_streak(lg1, user_id, now)
      user == get_user(us, user_id)
      display_name == IF user # {} THEN (CHOOSE r \in user : TRUE).display_name
                      ELSE "Anonymous"
      field == IF user # {} THEN (CHOOSE r \in user : TRUE).field
               ELSE "Unknown"
  IN IF ~SqlPrepares(UsersUpsertWheres)
     THEN [users |-> us, logs |-> lg1, total |-> total, streak |-> streak,
           raised |-> TRUE, badges |-> <<>>,
           steps |-> <<"insert_logs", "sum_hours", "compute_streak">>,
           same_again |-> lg1 = lg]
     ELSE LET us1 == UpsertUserTotals(us, user_id, display_name, field, total,
                                      streak, now)
              upd == update_badges(us1, user_id)
          IN [users |-> upd.users, logs |-> lg1, total |-> total,
              streak |-> streak, raised |-> FALSE, badges |-> upd.badges,
              steps |-> <<"insert_logs", "sum_hours", "compute_streak",
                          "insert_users", "update_badges">>,
              same_again |-> lg1 = lg]

\* check_stage_conditions with the rows tested lowest stage first
check_stage_conditions_LowestFirst(hours_today, distraction_free, exercise, diet, early_morning, streak_days) ==
  IF hours_today >= H(2) /\ distraction_free /\ streak_days >= 15
  THEN "Silver"
  ELSE IF hours_today >= H(4) /\ distraction_free /\ exercise /\ diet
            /\ streak_days >= 30
       THEN "Platinum"
  ELSE IF hours_today >= H(6) /\ distraction_free /\ exercise /\ early_morning
            /\ streak_days >= 60
       THEN "Gold"
  ELSE "None"

\* src/app.py:278-292, the stage earned, "None" for None
check_stage_conditions(hours_today, distraction_free, exercise, diet, early_morning, streak_days) ==
  IF hours_today >= H(6) /\ distraction_free /\ exercise /\ early_morning
       /\ streak_days >= 60
  THEN "Gold"
  ELSE IF hours_today >= H(4) /\ distraction_free /\ exercise /\ diet
            /\ streak_days >= 30
       THEN "Platinum"
  ELSE IF hours_today >= H(2) /\ distraction_free /\ streak_days >= 15
       THEN "Silver"
  ELSE "None"

\* src/app.py:376, f"{stage_earned} Stage"
StageBadge(stage_earned) ==
  CASE stage_earned = "Gold" -> "Gold Stage"
    [] stage_earned = "Platinum" -> "Platinum Stage"
    [] stage_earned = "Silver" -> "Silver Stage"

----------------------------------------------------------------------------
(* predict_progress.  A real is a pair <<numerator, denominator>> in lowest *)
(* terms with a positive denominator; hours are in half hours.              *)

RECURSIVE GCD(_, _)
GCD(a, b) == IF b = 0 THEN a ELSE GCD(b, a % b)

Abs(n) == IF n < 0 THEN 0 - n ELSE n

RatNorm(n, d) ==
  LET g == GCD(Abs(n), d)
  IN <<n \div g, d \div g>>

\* p - q
RatSub(p, q) == RatNorm(p[1] * q[2] - q[1] * p[2], p[2] * q[2])

\* max(0.0, p)
RatMax0(p) == IF p[1] < 0 THEN <<0, 1>> ELSE p

\* round(n / d) for d > 0: the nearest integer.  Half way between
\* two integers the double that round() is given lies a rounding error to
\* one side or the other, so both neighbours are results the build can give.
RoundCandidates(n, d) ==
  LET q == n \div d
      r == n % d
  IN IF 2 * r < d THEN {q}
     ELSE IF 2 * r > d THEN {q + 1}
     ELSE {q, q + 1}

\* src/app.py:136, X
CalibrationX == <<1, 2, 3, 4, 5, 6, 8>>
\* src/app.py:137, the 10000 of y = 10000/x
TARGET_HOURS == 10000
\* 3 * y is an integer at every calibration point
YScale == 3
CalibrationY3 ==
  [i \in DOMAIN CalibrationX |-> (TARGET_HOURS * YScale) \div CalibrationX[i]]

RECURSIVE SeqSum(_)
SeqSum(s) == IF s = <<>> THEN 0 ELSE s[1] + SeqSum(Tail(s))

\* src/app.py:138, LinearRegression().fit(X, y): ordinary least squares,
\*   slope = FitSlopeNum3 / (YScale * FitDen),
\*   intercept = FitInterceptNum3 / (YScale * n * FitDen)
FitN == Len(CalibrationX)
FitSx == SeqSum(CalibrationX)
FitSxx == SeqSum([i \in DOMAIN CalibrationX |-> CalibrationX[i] * CalibrationX[i]])
FitSy3 == SeqSum(CalibrationY3)
FitSxy3 == SeqSum([i \in DOMAIN CalibrationX |-> CalibrationX[i] * CalibrationY3[i]])
FitDen == FitN * FitSxx - FitSx * FitSx
FitSlopeNum3 == FitN * FitSxy3 - FitSx * FitSy3
FitInterceptNum3 == FitSy3 * FitDen - FitSlopeNum3 * FitSx

\* src/app.py:141, model.predict([[hours_per_day]])[0], in days
days_to_master(hours_per_day) ==
  RatNorm(HalfHoursPerHour * FitInterceptNum3 + FitSlopeNum3 * FitN * hours_per_day,
          HalfHoursPerHour * YScale * FitN * FitDen)

\* what predict_progress gives when it makes no estimate: months and years
\* None (the empty set), new_total the total it was given
NoEstimate(total_hours) ==
  [months |-> {}, years |-> {}, new_total |-> total_hours, days_remaining |-> {}]

\* the estimate made from days_remaining: months in tenths, years in
\* hundredths, new_total in half hours
Estimate(days_remaining, hours_per_day, total_hours) ==
  LET months == RoundCandidates(days_remaining[1], 3 * days_remaining[2])
      years == UNION {RoundCandidates(5 * m, 6) : m \in months}
  IN [months |-> months, years |-> years,
      new_total |-> total_hours + hours_per_day * 30,
      days_remaining |-> {days_remaining}]

\* predict_progress without max(0.0, ...)
predict_progress_NoClamp(hours_per_day, total_hours) ==
  IF hours_per_day <= 0 THEN NoEstimate(total_hours)
  ELSE LET rate == IF hours_per_day >= H(1) THEN hours_per_day ELSE H(1)
       IN Estimate(RatSub(days_to_master(hours_per_day),
                          RatNorm(total_hours, rate)),
                   hours_per_day, total_hours)

\* predict_progress with total_hours / hours_per_day
predict_progress_DivideByRate(hours_per_day, total_hours) ==
  IF hours_per_day <= 0 THEN NoEstimate(total_hours)
  ELSE Estimate(RatMax0(RatSub(days_to_master(hours_per_day),
                               RatNorm(total_hours, hours_per_day))),
                hours_per_day, total_hours)

\* src/app.py:134-146
predict_progress(hours_per_day, total_hours) ==
  IF hours_per_day <= 0 THEN NoEstimate(total_hours)
  ELSE LET rate == IF hours_per_day >= H(1) THEN hours_per_day ELSE H(1)
       IN Estimate(RatMax0(RatSub(days_to_master(hours_per_day),
                                  RatNorm(total_hours, rate))),
                   hours_per_day, total_hours)

----------------------------------------------------------------------------
(* Handlers of main() *)

\* what a handler run leaves on the page, before any handler has run
Idle ==
  [op |-> "start", user_id |-> 0, raised |-> FALSE, distraction_free |-> FALSE,
   hours |-> 0, exercise |-> FALSE, diet |-> FALSE, early_morning |-> FALSE,
   total |-> 0, streak |-> 0, stage_earned |-> "None", awarded |-> "None",
   already |-> "None", projected_from |-> 0, projection |-> NoEstimate(0),
   steps |-> <<>>, text |-> <<>>, same_again |-> FALSE]

\* src/app.py:373-387.  The result: the table after the UPDATE, the badge
\* announced as awarded and the badge reported as already held.
AwardStage(us, user_id, stage_earned) ==
  IF stage_earned = "None"
  THEN [users |-> us, awarded |-> "None", already |-> "None"]
  ELSE LET rows == get_user(us, user_id)
           user == CHOOSE r \in rows : TRUE
           current_badges == SplitBadges(user.badges)
           stage_badge == StageBadge(stage_earned)
       IN IF stage_badge \notin current_badges
          THEN [users |-> (us \ rows) \cup
                            {[user EXCEPT !.badges =
                                JoinSorted(current_badges \cup {stage_badge})]},
                awarded |-> stage_badge, already |-> "None"]
          ELSE [users |-> us, awarded |-> "None", already |-> stage_badge]

\* AnalyzeRun with the estimate made after the entry is logged, from the
\* total the submission computed
AnalyzeRun_ProjectLast(us, lg, now, user_id, display_name, field, interests_text, hours_today, distraction_text, exercise, diet, early_morning) ==
  LET us0 == create_or_update_user(us, user_id, display_name, field,
                                   interests_text, now)
      distracted == detect_distractions(distraction_text)
      distraction_free == ~distracted
      before == get_user(us0, user_id)
      total_hours == IF before # {} THEN (CHOOSE r \in before : TRUE).total_hours
                     ELSE 0
      res == log_daily_entry(us0, lg, now, user_id, distraction_free,
                             hours_today, exercise, diet, early_morning)
      projection == predict_progress(hours_today, res.total)
      steps == <<"create_or_update_user", "detect_distractions">>
                 \o res.steps \o <<"predict_progress">>
      shown == [Idle EXCEPT !.op = "analyze", !.user_id = user_id,
                            !.distraction_free = distraction_free,
                            !.hours = hours_today, !.exercise = exercise,
                            !.diet = diet, !.early_morning = early_morning,
                            !.total = res.total, !.streak = res.streak,
                            !.projected_from = res.total,
                            !.projection = projection, !.steps = steps,
                            !.same_again = res.same_again]
  IN IF res.raised
     THEN [users |-> res.users, logs |-> res.logs,
           last |-> [shown EXCEPT !.raised = TRUE]]
     ELSE LET user == CHOOSE r \in get_user(res.users, user_id) : TRUE
              stage_earned ==
                check_stage_conditions(hours_today, distraction_free, exercise,
                                       diet, early_morning, user.streak_days)
              aw == AwardStage(res.users, user_id, stage_earned)
          IN [users |-> aw.users, logs |-> res.logs,
              last |-> [shown EXCEPT !.stage_earned = stage_earned,
                                     !.awarded = aw.awarded,
                                     !.already = aw.already,
                                     !.steps = steps \o <<"check_stage_conditions">>]]

\* src/app.py:341-391, "Analyze & Save Today".  The result: both tables as
\* the run leaves them and what the run showed; an exception of
\* log_daily_entry ends the run where it is raised.
AnalyzeRun(us, lg, now, user_id, display_name, field, interests_text, hours_today, distraction_text, exercise, diet, early_morning) ==
  LET us0 == create_or_update_user(us, user_id, display_name, field,
                                   interests_text, now)
      distracted == detect_distractions(distraction_text)
      distraction_free == ~distracted
      before == get_user(us0, user_id)
      total_hours == IF before # {} THEN (CHOOSE r \in before : TRUE).total_hours
                     ELSE 0
      projection == predict_progress(hours_today, total_hours)
      res == log_daily_entry(us0, lg, now, user_id, distraction_free,
                             hours_today, exercise, diet, early_morning)
      steps == <<"create_or_update_user", "detect_distractions",
                 "predict_progress">> \o res.steps
      shown == [Idle EXCEPT !.op = "analyze", !.user_id = user_id,
                            !.distraction_free = distraction_free,
                            !.hours = hours_today, !.exercise = exercise,
                            !.diet = diet, !.early_morning = early_morning,
                            !.total = res.total, !.streak = res.streak,
                            !.projected_from = total_hours,
                            !.projection = projection, !.steps = steps,
                            !.same_again = res.same_again]
  IN IF res.raised
     THEN [users |-> res.users, logs |-> res.logs,
           last |-> [shown EXCEPT !.raised = TRUE]]
     ELSE LET user == CHOOSE r \in get_user(res.users, user_id) : TRUE
              stage_earned ==
                check_stage_conditions(hours_today, distraction_free, exercise,
                                       diet, early_morning, user.streak_days)
              aw == AwardStage(res.users, user_id, stage_earned)
          IN [users |-> aw.users, logs |-> res.logs,
              last |-> [shown EXCEPT !.stage_earned = stage_earned,
                                     !.awarded = aw.awarded,
                                     !.already = aw.already,
                                     !.steps = steps \o <<"check_stage_conditions">>]]

----------------------------------------------------------------------------
(* Inputs *)

DisplayNames == {"Imran"}
Fields == {"Cricket", "Music"}
InterestTexts == {"coding, math"}

\* The forms tried: the hours slider at 0h, 2h, ... with the three
\* checkboxes (exercise, diet, early_morning) clear at 0h and ticked above.
Forms ==
  {[hours_today |-> H(2) * k, exercise |-> k > 0, diet |-> k > 0,
    early_morning |-> k > 0] : k \in 0..MaxHourSteps}

\* "None", " TV " and the empty text
TextChoices == { <<"N", "o", "n", "e">>, <<" ", "T", "V", " ">>, <<>> }

----------------------------------------------------------------------------
(* Actions *)

\* src/app.py:310-312, the sidebar button
SaveProfile(user_id, display_name, chosen_field, interests_text) ==
  /\ users' = create_or_update_user(users, user_id, display_name, chosen_field,
                                    interests_text, today)
  /\ last' = [Idle EXCEPT !.op = "save_profile", !.user_id = user_id]
  /\ UNCHANGED <<logs, today, ticks, runs>>

\* src/app.py:341-391
AnalyzeAndSave(user_id, display_name, field, interests_text, hours_today, distraction_text, exercise, diet, early_morning) ==
  LET run == AnalyzeRun(users, logs, today, user_id, display_name, field,
                        interests_text, hours_today, distraction_text,
                        exercise, diet, early_morning)
  IN /\ users' = run.users
     /\ logs' = run.logs
     /\ last' = run.last
     /\ UNCHANGED <<today, ticks, runs>>

\* midnight: date.today() moves on
Tick ==
  /\ ticks < MaxTicks
  /\ today' = today + 1
  /\ ticks' = ticks + 1
  /\ last' = [Idle EXCEPT !.op = "tick"]
  /\ UNCHANGED <<users, logs, runs>>

\* src/app.py:47-99 on a new database file: both tables empty
Init ==
  /\ users = {}
  /\ logs = {}
  /\ today = 0
  /\ ticks = 0
  /\ last = Idle
  /\ runs = NoRuns

Next ==
  \/ \E u \in UserIds, n \in DisplayNames, f \in Fields, it \in InterestTexts :
       SaveProfile(u, n, f, it)
  \/ \E u \in UserIds, n \in DisplayNames, f \in Fields, it \in InterestTexts,
        fm \in Forms, t \in TextChoices :
       AnalyzeAndSave(u, n, f, it, fm.hours_today, t, fm.exercise, fm.diet,
                      fm.early_morning)
  \/ Tick

Spec == Init /\ [][Next]_vars

----------------------------------------------------------------------------
(* A database that already holds a history.  User 1 has logged a run of n  *)
(* distraction-free days ending yesterday, each by one "Analyze & Save     *)
(* Today" run; the day before the run was skipped or logged as distracted, *)
(* and the day before that was logged distraction-free.                    *)

HistoryRuns == {0, 1, 2, 13, 14, STREAK_WINDOW - 1, MaxHistoryRun}
HistoryBreaks == {"missing", "distracted"}

HistoryRow(d, distraction_free) ==
  [user_id |-> 1, log_date |-> d, distraction_free |-> distraction_free,
   hours |-> 0, exercise |-> 0, diet |-> 0, early_morning |-> 0]

HistoryLogs(now, n, break) ==
  {HistoryRow(now - i, 1) : i \in 1..n}
    \cup (IF break = "distracted" THEN {HistoryRow(now - n - 1, 0)} ELSE {})
    \cup {HistoryRow(now - n - 2, 1)}

InitHist ==
  \E n \in HistoryRuns, break \in HistoryBreaks :
    /\ today = MaxHistoryRun + 2
    /\ logs = HistoryLogs(today, n, break)
    /\ users = create_or_update_user({}, 1, "Imran", "Cricket", "coding, math",
                                     today - n - 2)
    /\ ticks = 0
    /\ last = Idle
    /\ runs = NoRuns

\* the submissions of that user on one day
NextHist ==
  \E n \in DisplayNames, f \in Fields, it \in InterestTexts, fm \in Forms,
     t \in TextChoices :
    AnalyzeAndSave(1, n, f, it, fm.hours_today, t, fm.exercise, fm.diet,
                   fm.early_morning)

SpecHist == InitHist /\ [][NextHist]_vars

----------------------------------------------------------------------------
(* compute_streak *)

\* a day that ends a streak: no row, or a row with distraction_free = 0
BreakDay(lg, user_id, d) ==
  \/ LogRows(lg, user_id, d) = {}
  \/ \E r \in LogRows(lg, user_id, d) : r.distraction_free = 0

\* The number of consecutive days, counted backward from now inclusive,
\* before the first break day.  Among Cardinality(lg) + 1 days one has no row.
ConsecutiveDays(lg, user_id, now) ==
  LET mine == {r \in lg : r.user_id = user_id}
      logged == {r.log_date : r \in mine}
      distracted == {r.log_date : r \in {x \in mine : x.distraction_free = 0}}
      breaks == {k \in 0..Cardinality(mine) :
                   (now - k) \notin logged \/ (now - k) \in distracted}
  IN CHOOSE k \in breaks : \A j \in breaks : k <= j

Min(a, b) == IF a <= b THEN a ELSE b

\* C3 as stated: compute_streak returns the number of consecutive calendar
\* days, counted backward from today inclusive, that have a row with
\* distraction_free = 1, stopping at the first day with no row or with
\* distraction_free = 0: for every user on the stored rows, and as the value
\* the last submission computed.
C3_StreakIsConsecutiveDays ==
  /\ \A u \in UserIds :
       compute_streak(logs, u, today) = ConsecutiveDays(logs, u, today)
  /\ last.op = "analyze" =>
       last.streak = ConsecutiveDays(logs, last.user_id, today)

\* C3 amended: the same count, but never more than the 365 days the walk
\* covers; an empty history gives 0 and a break day k days back bounds the
\* result by k.
C3_StreakIsConsecutiveDaysInWindow ==
  /\ \A u \in UserIds :
       /\ compute_streak(logs, u, today) =
            Min(ConsecutiveDays(logs, u, today), STREAK_WINDOW)
       /\ \A k \in 0..3 : BreakDay(logs, u, today - k) =>
            compute_streak(logs, u, today) <= k
       /\ {r \in logs : r.user_id = u} = {} => compute_streak(logs, u, today) = 0
  /\ last.op = "analyze" =>
       last.streak = Min(ConsecutiveDays(logs, last.user_id, today), STREAK_WINDOW)

\* C3 witness: a submission on top of a run longer than the window, counted
\* as 365 days
C3_Witness ==
  /\ last.op = "analyze"
  /\ last.streak = STREAK_WINDOW
  /\ ConsecutiveDays(logs, last.user_id, today) = MaxHistoryRun + 1

----------------------------------------------------------------------------
(* check_stage_conditions on its own: every slider position, every setting *)
(* of the flags, the streaks 0..MaxProbeStreak.                            *)

CheckStage(hours_today, distraction_free, exercise, diet, early_morning, streak_days) ==
  /\ last.op = "start"
  /\ last' = [Idle EXCEPT !.op = "check_stage", !.hours = hours_today,
                          !.distraction_free = distraction_free,
                          !.exercise = exercise, !.diet = diet,
                          !.early_morning = early_morning,
                          !.streak = streak_days,
                          !.stage_earned =
                            check_stage_conditions(hours_today,
                              distraction_free, exercise, diet, early_morning,
                              streak_days)]
  /\ UNCHANGED <<users, logs, today, ticks, runs>>

NextStage ==
  \E h \in 0..H(SliderMaxHours), df \in BOOLEAN, ex \in BOOLEAN,
     di \in BOOLEAN, em \in BOOLEAN, sd \in 0..MaxProbeStreak :
    CheckStage(h, df, ex, di, em, sd)

SpecStage == Init /\ [][NextStage]_vars

\* The table of stage conditions: hours (in hours), the flags that must be
\* set, the streak.
StageRank == [None |-> 0, Silver |-> 1, Platinum |-> 2, Gold |-> 3]
Stages == {"Silver", "Platinum", "Gold"}
StageTable ==
  [Silver |-> [hours |-> 2, flags |-> {"distraction_free"}, streak |-> 15],
   Platinum |-> [hours |-> 4,
                 flags |-> {"distraction_free", "exercise", "diet"},
                 streak |-> 30],
   Gold |-> [hours |-> 6,
             flags |-> {"distraction_free", "exercise", "early_morning"},
             streak |-> 60]]

\* the stages whose row is fully met by what the run r submitted and found
StagesMet(r) ==
  {s \in Stages :
     /\ r.hours >= H(StageTable[s].hours)
     /\ \A f \in StageTable[s].flags : r[f]
     /\ r.streak >= StageTable[s].streak}

HighestStageMet(r) ==
  IF StagesMet(r) = {} THEN "None"
  ELSE CHOOSE s \in StagesMet(r) :
         \A t \in StagesMet(r) : StageRank[t] <= StageRank[s]

\* C6: check_stage_conditions returns the highest stage whose row of
\* conditions is fully met by the submission and the streak, whatever lower
\* stages are met or not, and no stage when no row is met.
C6_HighestStageMet ==
  last.op = "check_stage" => last.stage_earned = HighestStageMet(last)

\* C6 witness: Gold earned on a submission that meets the Gold row and not
\* the Platinum row (no diet)
C6_Witness ==
  /\ last.op = "check_stage"
  /\ last.stage_earned = "Gold"
  /\ "Platinum" \notin StagesMet(last)

----------------------------------------------------------------------------
(* What a daily submission leaves stored *)

\* the row of the user of the last run
LastUserRows == UserRows(users, last.user_id)

\* C2: after every daily submission the stored streak_days of the user is
\* compute_streak of the user's rows as of today.
C2_StoredStreakIsFresh ==
  last.op = "analyze" =>
    \E r \in LastUserRows :
      r.streak_days = compute_streak(logs, last.user_id, today)

\* C4: after every daily submission the stored total_hours of the user is
\* the sum of hours over all of the user's rows in logs.
C4_StoredTotalIsSum ==
  last.op = "analyze" =>
    \E r \in LastUserRows : r.total_hours = TotalHours(logs, last.user_id)

\* (total_hours, streak_days, badges) as stored for a user; a user without
\* a row has the values a new row starts with
StoredStats(us, user_id) ==
  IF UserRows(us, user_id) = {} THEN {<<0, 0, <<>>>>}
  ELSE {<<r.total_hours, r.streak_days, r.badges>> : r \in UserRows(us, user_id)}

\* C5: a daily submission is all-or-nothing: a submission that fails leaves
\* the rows of logs and the stored total_hours, streak_days and badges of
\* every user as they were.
C5_FailedSubmissionChangesNothing ==
  [][(last'.op = "analyze" /\ last'.raised) =>
       /\ logs' = logs
       /\ \A u \in UserIds : StoredStats(users', u) = StoredStats(users, u)]_vars

\* C10: a user whose run of distraction-free days reaches 15 with today's
\* entry, submitted with hours >= 2 and a distraction-free description, has
\* streak_days = 15 stored and is awarded "Silver Stage" by that submission.
C10_SilverOnFifteenthDay ==
  (/\ last.op = "analyze"
   /\ last.distraction_free
   /\ last.hours >= H(2)
   /\ ConsecutiveDays(logs, last.user_id, today) = 15)
  => /\ \E r \in LastUserRows :
          r.streak_days = 15 /\ "Silver Stage" \in SplitBadges(r.badges)
     /\ last.awarded = "Silver Stage"

----------------------------------------------------------------------------
(* A database file that already holds a users row with badges: init_db     *)
(* creates a table only if it is missing and keeps the rows it finds       *)
(* (src/app.py:52-65).  The row is one the INSERT of create_or_update_user *)
(* made (hour_stage 1, no totals) with a badge text of the form            *)
(* update_badges and main write.                                           *)

StoredBadgeTexts ==
  {JoinSorted({"Silver Stage"}), JoinSorted({"Gold (Mastery)", "Gold Stage"})}

StoredUsers(badges, since) ==
  {[r EXCEPT !.badges = badges] :
     r \in create_or_update_user({}, 1, "Imran", "Cricket", "coding, math",
                                 since)}

InitDb ==
  \E b \in StoredBadgeTexts :
    /\ users = StoredUsers(b, 0)
    /\ logs = {}
    /\ today = 0
    /\ ticks = 0
    /\ last = Idle
    /\ runs = NoRuns

\* the handler runs of that user, and the date changes
NextDb ==
  \/ \E n \in DisplayNames, f \in Fields, it \in InterestTexts :
       SaveProfile(1, n, f, it)
  \/ \E n \in DisplayNames, f \in Fields, it \in InterestTexts, fm \in Forms,
        t \in TextChoices :
       AnalyzeAndSave(1, n, f, it, fm.hours_today, t, fm.exercise, fm.diet,
                      fm.early_morning)
  \/ Tick

SpecDb == InitDb /\ [][NextDb]_vars

\* the same with a stored history: a run of 0, 13, 14 or 29 distraction-free days
\* ending yesterday
InitHistDb ==
  \E b \in StoredBadgeTexts, n \in {0, 13, 14, 29}, break \in HistoryBreaks :
    /\ today = MaxHistoryRun + 2
    /\ logs = HistoryLogs(today, n, break)
    /\ users = StoredUsers(b, today - n - 2)
    /\ ticks = 0
    /\ last = Idle
    /\ runs = NoRuns

SpecHistDb == InitHistDb /\ [][NextHist]_vars

\* the badge identifiers stored for a user
BadgeSet(us, user_id) ==
  UNION {SplitBadges(r.badges) : r \in UserRows(us, user_id)}

StageBadges == {"Silver Stage", "Platinum Stage", "Gold Stage"}
StageOfBadge ==
  [b \in StageBadges |->
     CHOOSE s \in Stages : StageBadge(s) = b]

\* the rank of the highest stage badge held, 0 (Starter) when none is held
HeldStageRank(us, user_id) ==
  LET held == {StageRank[StageOfBadge[b]] :
                 b \in BadgeSet(us, user_id) \cap StageBadges}
  IN IF held = {} THEN 0 ELSE CHOOSE k \in held : \A j \in held : j <= k

\* The stage stored for a user: column hour_stage, "Stage 1" being the
\* stage of a new user (src/app.py:58, 231, 399); 0 is Starter.
StoredStageRank(us, user_id) ==
  IF UserRows(us, user_id) = {} THEN 0
  ELSE (CHOOSE r \in UserRows(us, user_id) : TRUE).hour_stage - 1

\* C1: over every sequence of profile saves, daily submissions and date
\* changes, no badge identifier stored for a user is ever removed.
C1_BadgesNeverShrink ==
  [][\A u \in UserIds : BadgeSet(users, u) \subseteq BadgeSet(users', u)]_vars

\* C1 witness: a user who holds badges has submitted on a later day after a
\* distracted day
C1_Witness ==
  /\ last.op = "analyze"
  /\ ticks > 0
  /\ BadgeSet(users, last.user_id) # {}
  /\ \E r \in logs : /\ r.user_id = last.user_id
                     /\ r.log_date < today
                     /\ r.distraction_free = 0

\* C7: a stage badge is announced as awarded only when it was not held, the
\* stored badge text never lists an identifier twice, and a submission that
\* meets the row of a stage whose badge is already held leaves the badge set
\* as it was and announces no badge.
C7_StageBadgeOnce ==
  [][/\ last'.awarded # "None" =>
          last'.awarded \notin BadgeSet(users, last'.user_id)
     /\ \A r \in users' : Len(r.badges) = Cardinality(SplitBadges(r.badges))
     /\ (/\ last'.op = "analyze"
         /\ HighestStageMet(last') # "None"
         /\ StageBadge(HighestStageMet(last')) \in BadgeSet(users, last'.user_id))
        => /\ BadgeSet(users', last'.user_id) = BadgeSet(users, last'.user_id)
           /\ last'.awarded = "None"]_vars

\* C7 witness: a holder of "Silver Stage" has submitted an entry that meets
\* the Silver row again
C7_Witness ==
  /\ last.op = "analyze"
  /\ HighestStageMet(last) = "Silver"
  /\ "Silver Stage" \in BadgeSet(users, last.user_id)

C9_StageNeverDecreases ==
  [][\A u \in UserIds :
       /\ HeldStageRank(users', u) >= HeldStageRank(users, u)
       /\ StoredStageRank(users', u) >= StoredStageRank(users, u)]_vars

\* C9 witness: a holder of "Gold Stage" has submitted an entry that meets
\* no row of the stage table
C9_Witness ==
  /\ last.op = "analyze"
  /\ HighestStageMet(last) = "None"
  /\ HeldStageRank(users, last.user_id) = StageRank.Gold

----------------------------------------------------------------------------
(* The first submission, resubmissions, totals and tier badges *)

\* C11: the first submission of a user with no history completes without
\* failing; it leaves streak_days = 1 when the description is
\* distraction-free and 0 when it is distracted, total_hours equal to the
\* submitted hours, no stage reached and no stage badge.
C11_FirstSubmissionCompletes ==
  [][(/\ last'.op = "analyze"
      /\ {r \in logs : r.user_id = last'.user_id} = {})
     => /\ ~last'.raised
        /\ last'.stage_earned = "None"
        /\ \E r \in UserRows(users', last'.user_id) :
             /\ r.streak_days = BoolInt(last'.distraction_free)
             /\ r.total_hours = last'.hours
             /\ SplitBadges(r.badges) \cap StageBadges = {}]_vars

\* C12: logs holds one row at most per (user, date) in every state; after a
\* submission the row of that user and date is the entry just submitted
\* (a second submission on the same date replaces the first), and the stored
\* total_hours and streak_days of the user are the sum and the streak
\* recomputed from the stored rows.
C12_OneEntryPerDayRecomputed ==
  /\ \A r, q \in logs :
       (r.user_id = q.user_id /\ r.log_date = q.log_date) => r = q
  /\ last.op = "analyze" =>
       /\ LogRows(logs, last.user_id, today) =
            {[user_id |-> last.user_id, log_date |-> today,
              distraction_free |-> BoolInt(last.distraction_free),
              hours |-> last.hours, exercise |-> BoolInt(last.exercise),
              diet |-> BoolInt(last.diet),
              early_morning |-> BoolInt(last.early_morning)]}
       /\ \A r \in LastUserRows :
            /\ r.total_hours = SumHours({x \in logs : x.user_id = r.user_id})
            /\ r.streak_days = Min(ConsecutiveDays(logs, r.user_id, today),
                                   STREAK_WINDOW)

\* total_hours as stored for a user, 0 for a user without a row
StoredTotal(us, user_id) ==
  IF UserRows(us, user_id) = {} THEN 0
  ELSE (CHOOSE r \in UserRows(us, user_id) : TRUE).total_hours

\* C13: after any N submissions by one user the stored total_hours is the
\* exact sum of the N submitted hours: each submission adds the hours it
\* submitted to the stored total.
C13_TotalIsSumOfSubmitted ==
  [][last'.op = "analyze" =>
       StoredTotal(users', last'.user_id) =
         StoredTotal(users, last'.user_id) + last'.hours]_vars

\* the tiers, and the tier badges of the two tracks
Tiers == {"silver", "platinum", "gold"}
DistractionFreeTierBadge ==
  [silver |-> "Silver (Distraction-Free)",
   platinum |-> "Platinum (Distraction-Free)",
   gold |-> "Gold (Distraction-Free)"]
MasteryTierBadge ==
  [silver |-> "Silver (Mastery)", platinum |-> "Platinum (Mastery)",
   gold |-> "Gold (Mastery)"]
\* the thresholds of the tiers: days of streak, cumulative hours
TierStreakDays == [silver |-> 15, platinum |-> 30, gold |-> 60]
TierMasteryHours == [silver |-> 30, platinum |-> 120, gold |-> 360]

\* C14: after every submission the badge set of the user holds the
\* distraction-free tier badge of every tier whose threshold (15, 30, 60
\* days) is at most the user's streak as of today, and the mastery tier badge
\* of every tier whose threshold (30h, 120h, 360h) is at most the sum of the
\* user's logged hours, whether or not a stage row is met.
C14_TierBadgesForEveryThreshold ==
  last.op = "analyze" =>
    \A t \in Tiers :
      /\ TierStreakDays[t] <= compute_streak(logs, last.user_id, today)
           => DistractionFreeTierBadge[t] \in BadgeSet(users, last.user_id)
      /\ H(TierMasteryHours[t]) <= TotalHours(logs, last.user_id)
           => MasteryTierBadge[t] \in BadgeSet(users, last.user_id)

----------------------------------------------------------------------------
(* What can be typed into the Unique Username box: any text, the empty     *)
(* text included (src/app.py:306 st.sidebar.text_input).  The hours come   *)
(* from a slider over 0.0 .. 12.0 and are never negative.                  *)

\* the user id that stands for the empty text ""
EmptyUserId == 0
TypedUserIds == {EmptyUserId, 1}

NextTyped ==
  \/ \E u \in TypedUserIds, n \in DisplayNames, f \in Fields,
        it \in InterestTexts :
       SaveProfile(u, n, f, it)
  \/ \E u \in TypedUserIds, n \in DisplayNames, f \in Fields,
        it \in InterestTexts, fm \in Forms, t \in TextChoices :
       AnalyzeAndSave(u, n, f, it, fm.hours_today, t, fm.exercise, fm.diet,
                      fm.early_morning)
  \/ Tick

SpecTyped == Init /\ [][NextTyped]_vars

\* C15: a submission with negative hours or an empty user id is rejected
\* before any state is touched: it creates or changes no row of users and
\* no row of logs.
C15_InvalidSubmissionRejected ==
  [][(/\ last'.op = "analyze"
      /\ (last'.hours < 0 \/ last'.user_id = EmptyUserId))
     => /\ users' = users
        /\ logs' = logs]_vars

----------------------------------------------------------------------------
(* predict_progress on its own: every slider position, a negative rate,    *)
(* and totals from nothing to the 10000 hours and beyond.                  *)

PredictProgress(hours_per_day, total_hours) ==
  /\ last.op = "start"
  /\ last' = [Idle EXCEPT !.op = "predict_progress", !.hours = hours_per_day,
                          !.projected_from = total_hours,
                          !.projection =
                            predict_progress(hours_per_day, total_hours)]
  /\ UNCHANGED <<users, logs, today, ticks, runs>>

\* the rates tried, in half hours: -1h .. 12h
ProbeRates == (0 - H(1))..H(SliderMaxHours)
\* the totals tried, in half hours: 0h, 0.5h, 1h, 3h, 100h and the multiples
\* of 2500h
ProbeTotals ==
  {0, 1, H(1), H(3), H(100)} \cup {H(2500) * k : k \in 1..MaxProbeTotalSteps}

NextProject ==
  \E h \in ProbeRates, t \in ProbeTotals : PredictProgress(h, t)

SpecProject == Init /\ [][NextProject]_vars

\* C16: predict_progress returns the no-estimate result (no months, no
\* years) for every hours_per_day <= 0, and for every hours_per_day > 0 and
\* total_hours >= 0 it returns months >= 0.
C16_NoEstimateOrNonNegative ==
  last.op = "predict_progress" =>
    /\ last.hours <= 0 =>
         last.projection.months = {} /\ last.projection.years = {}
    /\ (last.hours > 0 /\ last.projected_from >= 0) =>
         /\ last.projection.months # {}
         /\ \A m \in last.projection.months : m >= 0

\* C16 witness: a rate at which the fitted line is below zero days, with
\* months 0.0 returned
C16_Witness ==
  /\ last.op = "predict_progress"
  /\ last.hours > 0
  /\ days_to_master(last.hours)[1] < 0
  /\ last.projection.months = {0}

\* total_hours / rate, both in half hours
HoursOverRate(total_hours, rate) == RatNorm(total_hours, rate)

\* C17 as stated: for every hours_per_day > 0 and total_hours >= 0,
\* days_remaining is max(0, predicted days - total_hours / hours_per_day).
C17_DaysRemainingDividesByRate ==
  (last.op = "predict_progress" /\ last.hours > 0 /\ last.projected_from >= 0)
  => last.projection.days_remaining =
       {RatMax0(RatSub(days_to_master(last.hours),
                       HoursOverRate(last.projected_from, last.hours)))}

\* C17 amended: days_remaining is max(0, predicted days - total_hours /
\* max(1, hours_per_day)): the total is divided by hours_per_day at one hour
\* a day and above, and by 1 below.
C17_DaysRemainingDividesByRateFromOne ==
  (last.op = "predict_progress" /\ last.hours > 0 /\ last.projected_from >= 0)
  => last.projection.days_remaining =
       {RatMax0(RatSub(days_to_master(last.hours),
                       HoursOverRate(last.projected_from,
                                     IF last.hours < H(1) THEN H(1)
                                     ELSE last.hours)))}

\* C17 witness: half an hour a day with hours already invested, and days
\* remaining
C17_Witness ==
  /\ last.op = "predict_progress"
  /\ last.hours > 0
  /\ last.hours < H(1)
  /\ last.projected_from > 0
  /\ \E d \in last.projection.days_remaining : d[1] > 0

----------------------------------------------------------------------------
(* The order of the steps of one submission *)

\* the place of a step among the steps of a run, 0 when it was not made
StepAt(steps, name) ==
  IF \E i \in DOMAIN steps : steps[i] = name
  THEN CHOOSE i \in DOMAIN steps : steps[i] = name
  ELSE 0

\* step a was made, and step b after it
MadeInOrder(steps, a, b) ==
  /\ StepAt(steps, a) > 0
  /\ StepAt(steps, a) < StepAt(steps, b)

\* the steps that evaluate badges and stages
EvaluationSteps == {"update_badges", "check_stage_conditions"}

\* C18 as stated: one submission performs, in this order, the log store
\* write, the streak computation, the stage/badge evaluation and only then
\* the mastery projection, which is computed from the user's total after
\* today's entry has been stored.
C18_ProjectionComesLast ==
  last.op = "analyze" =>
    /\ MadeInOrder(last.steps, "insert_logs", "compute_streak")
    /\ MadeInOrder(last.steps, "compute_streak", "check_stage_conditions")
    /\ MadeInOrder(last.steps, "check_stage_conditions", "predict_progress")
    /\ last.projected_from = TotalHours(logs, last.user_id)

\* C18 amended: one submission makes the mastery projection first, from the
\* total_hours stored for the user before today's entry is written, then the
\* log store write, then the streak computation; a stage/badge evaluation
\* is made only after these.
C18_ProjectionComesFirst ==
  [][last'.op = "analyze" =>
       /\ MadeInOrder(last'.steps, "predict_progress", "insert_logs")
       /\ MadeInOrder(last'.steps, "insert_logs", "compute_streak")
       /\ \A i \in DOMAIN last'.steps :
            last'.steps[i] \in EvaluationSteps =>
              StepAt(last'.steps, "compute_streak") < i
       /\ last'.projected_from = StoredTotal(users, last'.user_id)
       /\ last'.projection =
            predict_progress(last'.hours, StoredTotal(users, last'.user_id))]_vars

\* C18 witness: a submission with hours above zero has been given an
\* estimate made from a total that lacks the hours it logged
C18_Witness ==
  /\ last.op = "analyze"
  /\ last.hours > 0
  /\ last.projection.months # {}
  /\ \E r \in LogRows(logs, last.user_id, today) : r.hours = last.hours
  /\ last.projected_from < TotalHours(logs, last.user_id)

----------------------------------------------------------------------------
(* detect_distractions on its own: texts in lower case, capitalised and in *)
(* capitals, bare and padded with spaces, alone and inside a sentence.     *)

UpperChar(c) ==
  IF \E i \in DOMAIN LowerCase : LowerCase[i] = c
  THEN UpperCase[CHOOSE i \in DOMAIN LowerCase : LowerCase[i] = c]
  ELSE c

Upper(t) == [i \in DOMAIN t |-> UpperChar(t[i])]
Capitalised(t) == [i \in DOMAIN t |-> IF i = 1 THEN UpperChar(t[i]) ELSE t[i]]

Spaces(n) == [i \in 1..n |-> " "]

ProbeCores ==
  { <<"n", "o", "n", "e">>,
    <<"n", "o">>,
    <<"n", "/", "a">>,
    <<"n", "a">>,
    <<"n", "o", "t", "h", "i", "n", "g">>,
    <<"n", "o", "t", "h", "i", "n", "g", " ", "m", "u", "c", "h">>,
    <<"b", "a", "n", "a", "n", "a">>,
    <<"r", "e", "a", "d", "i", "n", "g", " ", "a", " ", "b", "o", "o", "k">>,
    <<"t", "v">>,
    <<"r", "e", "d", "d", "i", "t">>,
    <<"g", "a", "m", "i", "n", "g">>,
    <<"s", "c", "r", "o", "l", "l", "i", "n", "g">>,
    <<"s", "o", "c", "i", "a", "l", " ", "m", "e", "d", "i", "a">>,
    <<"n", "e", "t", "f", "l", "i", "x">>,
    <<"p", "r", "o", "c", "r", "a", "s", "t", "i", "n", "a", "t", "e">>,
    <<"p", "r", "o", "c", "r", "a", "s", "t", "i", "n", "a", "t", "i", "o", "n">>,
    <<"p", "r", "o", "c", "r", "a", "s", "t", "i", "n", "a", "t", "i", "n", "g">>,
    <<"p", "r", "o", "c", "r", "a", "s", "t", "i", "n", "a", "t", "o", "r">>,
    <<"a", "d", "d", "i", "c", "t", "e", "d">>,
    <<"c", "a", "n", "'", "t", " ", "s", "t", "o", "p">>,
    <<"c", "a", "n", "t", " ", "s", "t", "o", "p">>,
    <<"c", "a", "n", "n", "o", "t", " ", "s", "t", "o", "p">>,
    <<"w", "a", "s", "t", "i", "n", "g">>,
    <<"w", "a", "s", "t", "e", " ", "t", "i", "m", "e">>,
    <<"c", "a", "n", "'", "t", " ", "f", "o", "c", "u", "s">>,
    <<"c", "a", "n", "t", " ", "f", "o", "c", "u", "s">>,
    <<"w", "a", "s", "t", "e", "d">>,
    <<>> }

\* "i was "
ProbeLead == <<"i", " ", "w", "a", "s", " ">>

ProbeTexts ==
  UNION {{Spaces(n) \o c \o Spaces(n),
          Spaces(n) \o Upper(c) \o Spaces(n),
          Spaces(n) \o Capitalised(c) \o Spaces(n),
          Spaces(n) \o ProbeLead \o c \o Spaces(n),
          Spaces(n) \o Upper(ProbeLead \o c) \o Spaces(n)} :
           c \in ProbeCores, n \in 0..MaxPad}

Classify(text) ==
  /\ last.op = "start"
  /\ last' = [Idle EXCEPT !.op = "detect_distractions", !.text = text,
                          !.distraction_free = ~detect_distractions(text)]
  /\ UNCHANGED <<users, logs, today, ticks, runs>>

NextText == \E text \in ProbeTexts : Classify(text)

SpecText == Init /\ [][NextText]_vars

\* the neutral tokens
ClaimedNeutral ==
  { <<"n", "o", "n", "e">>,
    <<"n", "o">>,
    <<"n", "/", "a">>,
    <<"n", "a">>,
    <<"n", "o", "t", "h", "i", "n", "g">> }

\* the listed social-media and app names, "gaming", "scrolling", "tv"
ClaimedKeywords ==
  { <<"s", "o", "c", "i", "a", "l", " ", "m", "e", "d", "i", "a">>,
    <<"f", "a", "c", "e", "b", "o", "o", "k">>,
    <<"i", "n", "s", "t", "a", "g", "r", "a", "m">>,
    <<"t", "i", "k", "t", "o", "k">>,
    <<"y", "o", "u", "t", "u", "b", "e">>,
    <<"n", "e", "t", "f", "l", "i", "x">>,
    <<"t", "w", "i", "t", "t", "e", "r">>,
    <<"s", "n", "a", "p", "c", "h", "a", "t">>,
    <<"r", "e", "d", "d", "i", "t">>,
    <<"g", "a", "m", "i", "n", "g">>,
    <<"s", "c", "r", "o", "l", "l", "i", "n", "g">>,
    <<"t", "v">> }

\* "procrastinat", the start of a word
ClaimedStem == <<"p", "r", "o", "c", "r", "a", "s", "t", "i", "n", "a", "t">>

\* "addicted", "can't stop", "wasting", "can't focus"
ClaimedPhrases ==
  { <<"a", "d", "d", "i", "c", "t", "e", "d">>,
    <<"c", "a", "n", "'", "t", " ", "s", "t", "o", "p">>,
    <<"w", "a", "s", "t", "i", "n", "g">>,
    <<"c", "a", "n", "'", "t", " ", "f", "o", "c", "u", "s">> }

\* t holds a word that starts with stem
HoldsWordStarting(t, stem) ==
  \E i \in 1..(Len(t) - Len(stem) + 1) :
    /\ SubSeq(t, i, i + Len(stem) - 1) = stem
    /\ (i = 1 \/ t[i - 1] = " ")

\* C19 as stated: the classification is a function of the lowercased,
\* trimmed text: a neutral token is distraction-free; any other text is
\* distraction-present if it holds a keyword (a listed name, "gaming",
\* "scrolling", "tv", or a word starting with "procrastinat") or one of the
\* phrases "addicted", "can't stop", "wasting", "can't focus"; a text with
\* none of these is distraction-free.
C19_ClassificationAsStated ==
  last.op = "detect_distractions" =>
    LET t == Lower(Strip(last.text))
    IN last.distraction_free <=>
         \/ t \in ClaimedNeutral
         \/ ~ \/ \E kw \in ClaimedKeywords \cup ClaimedPhrases : Contains(t, kw)
              \/ HoldsWordStarting(t, ClaimedStem)

\* the words "procrastinate" and "procrastination"
AmendedWords ==
  { <<"p", "r", "o", "c", "r", "a", "s", "t", "i", "n", "a", "t", "e">>,
    <<"p", "r", "o", "c", "r", "a", "s", "t", "i", "n", "a", "t", "i", "o", "n">> }

\* "cant stop", "cannot stop", "waste time", "cant focus"
AmendedPhrases ==
  { <<"c", "a", "n", "t", " ", "s", "t", "o", "p">>,
    <<"c", "a", "n", "n", "o", "t", " ", "s", "t", "o", "p">>,
    <<"w", "a", "s", "t", "e", " ", "t", "i", "m", "e">>,
    <<"c", "a", "n", "t", " ", "f", "o", "c", "u", "s">> }

\* C19 amended: the same, with the keywords "procrastinate" and
\* "procrastination" in place of every word starting with "procrastinat",
\* and with the phrases "cant stop", "cannot stop", "waste time" and
\* "cant focus" added to the negative admissions.
C19_ClassificationByListedSignals ==
  last.op = "detect_distractions" =>
    LET t == Lower(Strip(last.text))
    IN last.distraction_free <=>
         \/ t \in ClaimedNeutral
         \/ ~ \E kw \in ClaimedKeywords \cup AmendedWords \cup ClaimedPhrases
                          \cup AmendedPhrases : Contains(t, kw)

\* C19 witness: "PROCRASTINATING", padded or not, classified
\* distraction-free
C19_Witness ==
  /\ last.op = "detect_distractions"
  /\ Lower(Strip(last.text)) = <<"p", "r", "o", "c", "r", "a", "s", "t", "i", "n", "a", "t", "i", "n", "g">>
  /\ last.text # Lower(Strip(last.text))
  /\ last.distraction_free

----------------------------------------------------------------------------
(* compute_streak on its own, on the stored rows as they are: before the   *)
(* day's entry is submitted and after it.                                  *)

ComputeStreak(user_id) ==
  /\ last' = [Idle EXCEPT !.op = "compute_streak", !.user_id = user_id,
                          !.streak = compute_streak(logs, user_id, today)]
  /\ UNCHANGED <<users, logs, today, ticks, runs>>

NextStreak ==
  \/ NextHist
  \/ ComputeStreak(1)

SpecStreak == InitHist /\ [][NextStreak]_vars

\* C20 as stated: when today has no entry yet, compute_streak starts its
\* walk at yesterday and returns the number of consecutive distraction-free
\* logged days ending yesterday.
C20_WalkStartsAtYesterday ==
  (/\ last.op = "compute_streak"
   /\ LogRows(logs, last.user_id, today) = {})
  => last.streak = ConsecutiveDays(logs, last.user_id, today - 1)

\* C20 amended: when today has no entry yet, compute_streak returns 0: the
\* walk starts at today and a day without an entry ends it.  The
\* distraction-free days ending yesterday are counted once today has been
\* submitted as distraction-free, today being one of the days counted.
C20_NoEntryTodayGivesZero ==
  last.op = "compute_streak" =>
    /\ LogRows(logs, last.user_id, today) = {} => last.streak = 0
    /\ (\E r \in LogRows(logs, last.user_id, today) : r.distraction_free = 1)
         => last.streak =
              Min(1 + ConsecutiveDays(logs, last.user_id, today - 1),
                  STREAK_WINDOW)

\* C20 witness: a run of distraction-free days ends yesterday, today has no
\* entry, and compute_streak has returned 0
C20_Witness ==
  /\ last.op = "compute_streak"
  /\ LogRows(logs, last.user_id, today) = {}
  /\ ConsecutiveDays(logs, last.user_id, today - 1) >= 2
  /\ last.streak = 0

----------------------------------------------------------------------------
(* Two users on one day, in any order.  The database is new, or it holds   *)
(* what a submission of each of the two users on the day before has left:  *)
(* the users row and the logs row of that day.                             *)

PairIds == {1, 2}

\* the tables after each user of a set has submitted 2 hours, undistracted,
\* on day d
RECURSIVE AfterSubmissions(_, _, _, _)
AfterSubmissions(us, lg, ids, d) ==
  IF ids = {} THEN [users |-> us, logs |-> lg]
  ELSE LET u == CHOOSE x \in ids : TRUE
           run == AnalyzeRun(us, lg, d, u, "Imran", "Cricket", "coding, math",
                             H(2), <<>>, FALSE, FALSE, FALSE)
       IN AfterSubmissions(run.users, run.logs, ids \ {u}, d)

InitPair ==
  \E before \in {{}, PairIds} :
    /\ users = AfterSubmissions({}, {}, before, 0).users
    /\ logs = AfterSubmissions({}, {}, before, 0).logs
    /\ today = 1
    /\ ticks = 0
    /\ last = Idle
    /\ runs = NoRuns

NextPair ==
  \/ \E u \in PairIds, n \in DisplayNames, f \in Fields, it \in InterestTexts :
       SaveProfile(u, n, f, it)
  \/ \E u \in PairIds, n \in DisplayNames, f \in Fields, it \in InterestTexts,
        fm \in Forms, t \in TextChoices :
       AnalyzeAndSave(u, n, f, it, fm.hours_today, t, fm.exercise, fm.diet,
                      fm.early_morning)

SpecPair == InitPair /\ [][NextPair]_vars

\* the rows of logs of a user
LogsOf(lg, user_id) == {r \in lg : r.user_id = user_id}

\* C21: a profile save or a submission of one user leaves every logs row
\* and the users row (total_hours, streak_days, stage, badges) of every
\* other user as they were, in whatever order the users act.
C21_OtherUsersUntouched ==
  [][\A b \in PairIds :
       (last'.op \in {"save_profile", "analyze"} /\ b # last'.user_id)
       => /\ LogsOf(logs', b) = LogsOf(logs, b)
          /\ UserRows(users', b) = UserRows(users, b)]_vars

\* C21 witness: a user has submitted on a day on which the other user has
\* a row too, next to the rows both have from the day before
C21_Witness ==
  /\ last.op = "analyze"
  /\ \A u \in PairIds :
       /\ LogRows(logs, u, today) # {}
       /\ LogRows(logs, u, today - 1) # {}
       /\ UserRows(users, u) # {}

----------------------------------------------------------------------------
(* Earlier days, and the same entry twice *)

\* C22: a submission writes only the logs row of the current date: a row of
\* an earlier date is never changed or removed, and a row that changes or
\* appears is the row of today of the user who submitted.
C22_OnlyTodaysRowWritten ==
  [][/\ \A r \in logs : r.log_date < today' => r \in logs'
     /\ \A r \in logs' \ logs :
          /\ last'.op = "analyze"
          /\ r.log_date = today'
          /\ r.user_id = last'.user_id
     /\ \A r \in logs \ logs' :
          /\ last'.op = "analyze"
          /\ r.log_date = today'
          /\ r.user_id = last'.user_id]_vars

\* C22 witness: a submission after midnight, with yesterday's row stored
\* with other hours
C22_Witness ==
  /\ last.op = "analyze"
  /\ \E r \in LogRows(logs, last.user_id, today - 1) : r.hours # last.hours
  /\ \E r \in LogRows(logs, last.user_id, today) : r.hours = last.hours

\* C23: a submission of the entry that the user's last submission on the
\* same date stored leaves the user's logs rows, total_hours, streak_days
\* and badge set as the first left them.
C23_SameEntryTwiceIsIdempotent ==
  [][(/\ last'.op = "analyze"
      /\ LogRows(logs, last'.user_id, today) =
           {LogRow(last'.user_id, today', last'.distraction_free, last'.hours,
                   last'.exercise, last'.diet, last'.early_morning)})
     => /\ logs' = logs
        /\ StoredStats(users', last'.user_id) = StoredStats(users, last'.user_id)
        /\ BadgeSet(users', last'.user_id) = BadgeSet(users, last'.user_id)]_vars

\* C23 witness: an entry with hours has been submitted a second time on the
\* same date by a user who holds badges
C23_Witness ==
  /\ last.op = "analyze"
  /\ last.same_again
  /\ last.hours > 0
  /\ BadgeSet(users, last.user_id) # {}

----------------------------------------------------------------------------
(* Two sessions submitting for the same user at the same time.  Each       *)
(* statement a run executes is one step: sqlite runs the statements of two *)
(* connections one at a time, every write is committed right after it      *)
(* (conn.commit()), and what a run has fetched is a local of that run.     *)

\* the user both sessions have typed into the Unique Username box
ConcUser == 1

RunEnded(r) == r.pc \in {"done", "failed"}
RunUnderWay(r) == r.pc \notin {"idle", "done", "failed"}

\* UPDATE users SET badges=? WHERE user_id=?
SetBadges(us, user_id, text) ==
  {IF x.user_id = user_id THEN [x EXCEPT !.badges = text] ELSE x : x \in us}

\* display_name and field as log_daily_entry takes them from the row it
\* fetched (src/app.py:250-252)
FetchedName(r) ==
  IF r.user # {} THEN (CHOOSE x \in r.user : TRUE).display_name ELSE "Anonymous"
FetchedField(r) ==
  IF r.user # {} THEN (CHOOSE x \in r.user : TRUE).field ELSE "Unknown"

\* the stage the run finds earned on the row it fetched (src/app.py:369-372)
FetchedStage(r) ==
  check_stage_conditions(r.hours_today, r.distraction_free, r.exercise, r.diet,
                         r.early_morning,
                         (CHOOSE x \in r.user : TRUE).streak_days)

\* src/app.py:341-391, the next statement of run r on the tables as they
\* are.  The result: both tables and the run after the statement.
RunStep(us, lg, now, r) ==
  LET same == [users |-> us, logs |-> lg, run |-> r]
      uid == r.user_id
  IN CASE r.pc = "create_get_user" ->
            \* create_or_update_user: user = get_user(conn, user_id)
            [same EXCEPT !.run = [r EXCEPT !.user = get_user(us, uid),
                                           !.pc = "create_write"]]
       [] r.pc = "create_write" ->
            \* UPDATE when a row was fetched, INSERT otherwise; the INSERT
            \* of a user_id that is stored by now raises IntegrityError
            IF r.user = {} /\ get_user(us, uid) # {}
            THEN [same EXCEPT !.run = [r EXCEPT !.pc = "failed"]]
            ELSE [same EXCEPT
                    !.users = create_or_update_user(us, uid, r.display_name,
                                r.field, r.interests_text, now),
                    !.run = [r EXCEPT !.pc = "predict_get_user"]]
       [] r.pc = "predict_get_user" ->
            \* main: user = get_user(conn, user_id), then predict_progress
            [same EXCEPT !.run = [r EXCEPT !.user = get_user(us, uid),
                                           !.pc = "insert_logs"]]
       [] r.pc = "insert_logs" ->
            [same EXCEPT
               !.logs = UpsertLog(lg, uid, now, r.distraction_free,
                                  r.hours_today, r.exercise, r.diet,
                                  r.early_morning),
               !.run = [r EXCEPT !.pc = "sum_hours"]]
       [] r.pc = "sum_hours" ->
            [same EXCEPT !.run = [r EXCEPT !.total = TotalHours(lg, uid),
                                           !.pc = "compute_streak"]]
       [] r.pc = "compute_streak" ->
            \* of the rows the loop selects only today's can change meanwhile
            [same EXCEPT !.run = [r EXCEPT !.streak = compute_streak(lg, uid, now),
                                           !.pc = "log_get_user"]]
       [] r.pc = "log_get_user" ->
            [same EXCEPT !.run = [r EXCEPT !.user = get_user(us, uid),
                                           !.pc = "insert_users"]]
       [] r.pc = "insert_users" ->
            IF ~SqlPrepares(UsersUpsertWheres)
            THEN [same EXCEPT !.run = [r EXCEPT !.pc = "failed"]]
            ELSE [same EXCEPT
                    !.users = UpsertUserTotals(us, uid, FetchedName(r),
                                FetchedField(r), r.total, r.streak, now),
                    !.run = [r EXCEPT !.pc = "badges_select"]]
       [] r.pc = "badges_select" ->
            \* update_badges: SELECT streak_days, total_hours, badges
            [same EXCEPT
               !.run = [r EXCEPT !.user = UserRows(us, uid),
                                 !.pc = IF UserRows(us, uid) = {}
                                        THEN "stage_get_user"
                                        ELSE "badges_update"]]
       [] r.pc = "badges_update" ->
            \* update_badges: the text made from the row as it was fetched
            LET text == update_badges(r.user, uid).badges
            IN [same EXCEPT
                  !.users = SetBadges(us, uid, text),
                  !.run = [r EXCEPT
                             !.awarded = @ \cup (SplitBadges(text)
                                                   \ BadgeSet(r.user, uid)),
                             !.pc = "stage_get_user"]]
       [] r.pc = "stage_get_user" ->
            \* main: user = get_user(conn, user_id), check_stage_conditions
            LET fetched == [r EXCEPT !.user = get_user(us, uid)]
                aw == AwardStage(fetched.user, uid, FetchedStage(fetched))
            IN [same EXCEPT
                  !.run = [fetched EXCEPT !.pc = IF aw.awarded # "None"
                                                 THEN "stage_update"
                                                 ELSE "done"]]
       [] r.pc = "stage_update" ->
            \* main: UPDATE users SET badges=? from the row as it was fetched
            LET aw == AwardStage(r.user, uid, FetchedStage(r))
            IN [same EXCEPT
                  !.users = SetBadges(us, uid,
                              JoinSorted(BadgeSet(aw.users, uid))),
                  !.run = [r EXCEPT !.awarded = @ \cup {aw.awarded},
                                    !.pc = "done"]]

\* src/app.py:341, the button pressed in session s
Begin(s, display_name, field, interests_text, hours_today, distraction_text, exercise, diet, early_morning) ==
  /\ runs[s].pc = "idle"
  /\ runs' = [runs EXCEPT ![s] =
       [NoRun EXCEPT !.pc = "create_get_user", !.user_id = ConcUser,
                     !.display_name = display_name, !.field = field,
                     !.interests_text = interests_text,
                     !.hours_today = hours_today,
                     !.distraction_free = ~detect_distractions(distraction_text),
                     !.exercise = exercise, !.diet = diet,
                     !.early_morning = early_morning,
                     !.badges_before = BadgeSet(users, ConcUser)]]
  /\ UNCHANGED <<users, logs, today, ticks, last>>

\* session s runs its next statement; a run under way in the other session
\* is from then on one that ran alongside this one
Step(s) ==
  /\ RunUnderWay(runs[s])
  /\ LET res == RunStep(users, logs, today, runs[s])
         alongside == \E t \in Sessions \ {s} : RunUnderWay(runs[t])
     IN /\ users' = res.users
        /\ logs' = res.logs
        /\ runs' = [t \in Sessions |->
                      IF t = s
                      THEN [res.run EXCEPT !.overlapped = @ \/ alongside]
                      ELSE [runs[t] EXCEPT
                              !.overlapped = @ \/ RunUnderWay(runs[t])]]
  /\ UNCHANGED <<today, ticks, last>>

\* a database that stores badges and 14 distraction-free days up to
\* yesterday
InitConc ==
  \E b \in StoredBadgeTexts :
    /\ today = 16
    /\ logs = HistoryLogs(today, 14, "missing")
    /\ users = StoredUsers(b, 0)
    /\ ticks = 0
    /\ last = Idle
    /\ runs = NoRuns

NextConc ==
  \/ \E s \in Sessions, n \in DisplayNames, f \in Fields, it \in InterestTexts,
        fm \in Forms, t \in TextChoices :
       Begin(s, n, f, it, fm.hours_today, t, fm.exercise, fm.diet,
             fm.early_morning)
  \/ \E s \in Sessions : Step(s)

SpecConc == InitConc /\ [][NextConc]_vars

====
